---------------------------- MODULE Spec2Model ----------------------------
(***************************************************************************)
(* A model of unbrowserify (src/unbrowserify.js): the kernel matcher       *)
(* findMainFunction, the name resolver extractModuleNames and the module   *)
(* assembler extractModules with its helpers.                              *)
(*                                                                         *)
(* Module names and require specifiers are '/'-separated strings in the    *)
(* program; here a path is the sequence of its segments, so 'x/a' is       *)
(* <<"x", "a">> and './a' is <<".", "a">>.  The undefined value (a missing *)
(* key of moduleNames) is the empty sequence: like undefined it is falsy,  *)
(* and no name the program builds is the empty string.                     *)
(***************************************************************************)
EXTENDS Integers, Sequences, FiniteSets, TLC

(***************************************************************************)
(* Bounds of the explored inputs.                                          *)
(***************************************************************************)
\* module ids are 1..MaxModules; a module map has at most that many entries
MaxModules == 3
\* require-map entries in a whole module map
MaxProps == 2
\* entry ids listed in the kernel's third argument
MaxMain == 2

Ids == 1..MaxModules

Undefined == <<>>

(***************************************************************************)
(* The state.                                                              *)
(***************************************************************************)
\* extractModuleNames (the module map and the Name Table are extractModules'
\* arguments too)
VARIABLES
    moduleObject,    \* the module map: the kernel's first argument
    main,            \* the entry ids: the kernel's third argument
    moduleNames,     \* the Name Table: id -> name, Undefined where missing
    properties,      \* the worklist
    objectProperty,  \* the entry taken off the worklist
    moduleName,      \* the local: the name of objectProperty's module
    propIndex,       \* the position of forEach in its requireMapping
    warnings,        \* warnings written with console.warn
    conflicts,       \* history: candidates that differed from an existing name
    pc               \* "seed", "loop", "props", "done"; "idle" outside a call

\* findMainFunction
VARIABLES
    ast,               \* the program tree walked
    position,          \* the node TreeWalker visits next
    mainFunctionCall,  \* the local: the position of the call found, 0 for undefined
    mainPc             \* "walk", "returned", "threw"; "idle" outside a call

\* extractModules
VARIABLES
    dependencies,      \* the process-wide set of package names (line 18)
    moduleProperties,  \* the entries left by the filters, then their definitions
    modules,           \* the result: name -> the statements of its tree
    assembled,         \* the entries forEach has assembled
    exPc               \* "filterBuiltin", "filterPublished", "map", "assemble",
                       \* "returned", "threw"; "idle" outside a call

\* decompress
VARIABLES
    program,           \* the tree as parsed
    moduleTree,        \* the tree decompress rewrites in place
    runs               \* calls of decompress on moduleTree so far

\* unbrowserify
VARIABLES
    run,               \* calls of unbrowserify in this process so far
    runPc,             \* "parse", "match", "resolve", "extract", "map",
                       \* "awaiting", "done"; "idle" before the first call
    failure,           \* what rejected the promise: "read", "kernel",
                       \* "assembly", "normalization", "output"; else "none"
    promise,           \* the promise unbrowserify returned: "pending",
                       \* "resolved", "rejected"
    moduleKeys,              \* Object.keys(modules)
    mapIndex,          \* the modules the map callback has returned for
    mapStep,           \* the callback's next statement: "decompress", "output"
    decompressed,      \* the names of the modules decompress returned for
    outputs,           \* name -> "none", "mkdirp", "writing", "written", "failed"
    descriptor         \* package.json: its state and the dependencies declared

namesVars == <<moduleObject, main, moduleNames, properties, objectProperty,
               moduleName, propIndex, warnings, conflicts, pc>>

mainVars == <<ast, position, mainFunctionCall, mainPc>>

extractVars == <<dependencies, moduleProperties, modules, assembled, exPc>>

decompressVars == <<program, moduleTree, runs>>

runVars == <<run, runPc, failure, promise, moduleKeys, mapIndex, mapStep, decompressed,
             outputs, descriptor>>

vars == <<namesVars, mainVars, extractVars, decompressVars, runVars>>

(***************************************************************************)
(* Strings and paths.                                                      *)
(***************************************************************************)
\* the require specifiers of the explored bundles
RelativeSpecifiers == { <<".", "a">>, <<".", "x", "a">>, <<".", "A">>, <<"..", "a">> }
PackageSpecifiers == { <<"fs">> }
Specifiers == RelativeSpecifiers \cup PackageSpecifiers

\* String.prototype.toLowerCase on one path segment
LowerSegment(seg) ==
    CASE seg = "A" -> "a"
      [] seg = "Vendor" -> "vendor"
      [] OTHER -> seg

\* String.prototype.toLowerCase on a path
ToLowerCase(p) == [i \in 1..Len(p) |-> LowerSegment(p[i])]

RECURSIVE SumLen(_)
SumLen(p) == IF p = <<>> THEN 0 ELSE Len(Head(p)) + SumLen(Tail(p))

\* String.prototype.length of a path: its segments and the '/' between them
StrLength(p) == IF p = <<>> THEN 0 ELSE SumLen(p) + (Len(p) - 1)

\* String.prototype.startsWith('.') on a specifier
StartsWithDot(name) == name # <<>> /\ Head(name) \in {".", ".."}

\* path.normalize: drop '.', resolve '..' against the segment before it
RECURSIVE NormalizeSegments(_, _)
NormalizeSegments(segs, acc) ==
    IF segs = <<>> THEN acc
    ELSE IF Head(segs) = "." THEN NormalizeSegments(Tail(segs), acc)
    ELSE IF Head(segs) = ".." /\ acc # <<>> /\ acc[Len(acc)] # ".."
         THEN NormalizeSegments(Tail(segs), SubSeq(acc, 1, Len(acc) - 1))
    ELSE NormalizeSegments(Tail(segs), Append(acc, Head(segs)))

\* path.join of already split parts
PathJoin(parts) ==
    LET r == NormalizeSegments(parts, <<>>)
    IN  IF r = <<>> THEN <<".">> ELSE r

\* path.dirname of a relative path
PathDirname(p) == IF Len(p) <= 1 THEN <<".">> ELSE SubSeq(p, 1, Len(p) - 1)

(***************************************************************************)
(* The module map: the kernel's first argument (moduleObject) is a list of *)
(* properties  key: [moduleFunction, requireMapping]; requireMapping is a  *)
(* list of properties  specifier: target id.                               *)
(***************************************************************************)
\* a module function without parameters and without calls in its body
EmptyFunction == [argnames |-> <<>>, body |-> <<>>]

\* the sequences over S of length n without repeated elements
DistinctSeqs(S, n) == { s \in [1..n -> S] : \A i, j \in 1..n : s[i] = s[j] => i = j }

\* the key orders of module maps: every list of distinct ids
KeyLists == UNION { DistinctSeqs(Ids, n) : n \in 0..MaxModules }

\* the entry-id lists: <<1>>, <<1, 2>>, ...
MainLists == { [i \in 1..n |-> i] : n \in 1..MaxMain }

\* the require-map entries of a map of n modules, in source order: each is
\* owned by the module at position `owner`
FlatProps(n, specs) ==
    UNION { { f \in [1..k -> [owner : 1..n, key : specs, value : Ids]] :
                /\ \A i \in 1..(k - 1) : f[i].owner <= f[i + 1].owner
                /\ \A i, j \in 1..k :
                     (f[i].owner = f[j].owner /\ f[i].key = f[j].key) => i = j }
            : k \in 0..MaxProps }

OwnedBy(flat, o) ==
    LET own == SelectSeq(flat, LAMBDA p : p.owner = o)
    IN  [i \in 1..Len(own) |-> [key |-> own[i].key, value |-> own[i].value]]

\* the module map with the keys `keys` and the require-map entries `flat`
ModuleObject(keys, flat) ==
    [i \in 1..Len(keys) |->
        [key |-> keys[i], moduleFunction |-> EmptyFunction,
         requireMapping |-> OwnedBy(flat, i)]]

(***************************************************************************)
(* extractModuleNames                                                      *)
(***************************************************************************)
NoProperty == [key |-> 0, moduleFunction |-> EmptyFunction, requireMapping |-> <<>>]

\* the state of a call of extractModuleNames(mo, mn) before its first statement
NamesStart(mo, mn) ==
    [moduleObject |-> mo, main |-> mn,
     moduleNames |-> [id \in Ids |-> Undefined],
     properties |-> <<>>, objectProperty |-> NoProperty, moduleName |-> Undefined,
     propIndex |-> 0, warnings |-> 0, conflicts |-> 0, pc |-> "seed"]

\* lines 110-116: seed the entry ids, copy the properties into the worklist
SeedNames(s) ==
    [s EXCEPT !.moduleNames =
                  [id \in DOMAIN s.moduleNames |->
                      IF \E i \in 1..Len(s.main) : s.main[i] = id
                      THEN <<"browser">> ELSE s.moduleNames[id]],
              !.properties = s.moduleObject,
              !.pc = "loop"]

\* a deferral that forgets the entry instead of queueing it again
DeferPropertyDrops(s) == [s EXCEPT !.properties = Tail(s.properties)]

\* lines 125-130: the entry at the head has no name: back to the worklist's end
DeferProperty(s) ==
    [s EXCEPT !.properties = Append(Tail(s.properties), Head(s.properties))]

\* lines 119-125: take the named entry at the head and start on its requires
EnterProperty(s) ==
    LET p == Head(s.properties)
    IN  [s EXCEPT !.properties = Tail(s.properties),
                  !.objectProperty = p,
                  !.moduleName = s.moduleNames[p.key],
                  !.propIndex = 1,
                  !.pc = IF p.requireMapping = <<>> THEN "loop" ELSE "props"]

\* lines 136-142: the candidate name of a specifier required by moduleName
CandidateName(modName, name) ==
    IF StartsWithDot(name)
    THEN PathJoin(PathDirname(modName) \o name)
    ELSE PathJoin(<<"node_modules">> \o name \o <<"index">>)

\* a conflict rule that renames the target and warns in both cases
AssignNameRenamesTarget(s, id, name) ==
    IF s.moduleNames[id] = Undefined
    THEN [s EXCEPT !.moduleNames[id] = name]
    ELSE IF ToLowerCase(s.moduleNames[id]) # ToLowerCase(name)
    THEN IF StrLength(s.moduleNames[id]) <= StrLength(name)
         THEN [s EXCEPT !.warnings = @ + 1]
         ELSE [s EXCEPT !.moduleNames[id] = Append(@, "index"), !.warnings = @ + 1]
    ELSE s

\* a conflict rule that lets the shorter candidate replace the name
AssignNameOverwrites(s, id, name) ==
    IF s.moduleNames[id] = Undefined
    THEN [s EXCEPT !.moduleNames[id] = name]
    ELSE IF ToLowerCase(s.moduleNames[id]) # ToLowerCase(name)
    THEN IF StrLength(s.moduleNames[id]) <= StrLength(name)
         THEN [s EXCEPT !.warnings = @ + 1]
         ELSE [s EXCEPT !.moduleNames[id] = name]
    ELSE s

\* lines 144-154: what one require-map entry does to the Name Table
AssignName(s, id, name) ==
    IF s.moduleNames[id] = Undefined
    THEN [s EXCEPT !.moduleNames[id] = name]
    ELSE IF ToLowerCase(s.moduleNames[id]) # ToLowerCase(name)
    THEN IF StrLength(s.moduleNames[id]) <= StrLength(name)
         THEN [s EXCEPT !.warnings = @ + 1]
         ELSE [s EXCEPT !.moduleNames[s.objectProperty.key] = Append(s.moduleName, "index"),
                        !.moduleName = Append(s.moduleName, "index")]
    ELSE s

\* lines 132-155: one round of requireMapping.properties.forEach
VisitRequire(s) ==
    LET prop == s.objectProperty.requireMapping[s.propIndex]
        name == CandidateName(s.moduleName, prop.key)
        t    == AssignName(s, prop.value, name)
        last == s.propIndex = Len(s.objectProperty.requireMapping)
    IN  [t EXCEPT !.conflicts =
                      IF s.moduleNames[prop.value] # Undefined
                         /\ s.moduleNames[prop.value] # name
                      THEN @ + 1 ELSE @,
                  !.propIndex = @ + 1,
                  !.pc = IF last THEN "loop" ELSE "props"]

\* lines 117, 157: the worklist is empty: return moduleNames
ReturnNames(s) == [s EXCEPT !.pc = "done"]

NamesState ==
    [moduleObject |-> moduleObject, main |-> main, moduleNames |-> moduleNames,
     properties |-> properties, objectProperty |-> objectProperty,
     moduleName |-> moduleName, propIndex |-> propIndex, warnings |-> warnings,
     conflicts |-> conflicts, pc |-> pc]

SetNames(s) ==
    /\ moduleObject' = s.moduleObject
    /\ main' = s.main
    /\ moduleNames' = s.moduleNames
    /\ properties' = s.properties
    /\ objectProperty' = s.objectProperty
    /\ moduleName' = s.moduleName
    /\ propIndex' = s.propIndex
    /\ warnings' = s.warnings
    /\ conflicts' = s.conflicts
    /\ pc' = s.pc

\* a loop that also stops at the first entry without a name
WorklistEmptyOrUnnamed(s) ==
    IF s.properties = <<>> THEN TRUE
    ELSE s.moduleNames[Head(s.properties).key] = Undefined

\* line 117: while(properties.length)
WorklistEmpty(s) == s.properties = <<>>

\* lines 125-126: if(!moduleName)
HeadUnnamed(s) == s.moduleNames[Head(s.properties).key] = Undefined

Seed ==
    /\ pc = "seed"
    /\ SetNames(SeedNames(NamesState))
    /\ UNCHANGED <<mainVars, extractVars, decompressVars, runVars>>

Defer ==
    /\ pc = "loop" /\ ~WorklistEmpty(NamesState) /\ HeadUnnamed(NamesState)
    /\ SetNames(DeferProperty(NamesState))
    /\ UNCHANGED <<mainVars, extractVars, decompressVars, runVars>>

Enter ==
    /\ pc = "loop" /\ ~WorklistEmpty(NamesState) /\ ~HeadUnnamed(NamesState)
    /\ SetNames(EnterProperty(NamesState))
    /\ UNCHANGED <<mainVars, extractVars, decompressVars, runVars>>

Visit ==
    /\ pc = "props"
    /\ SetNames(VisitRequire(NamesState))
    /\ UNCHANGED <<mainVars, extractVars, decompressVars, runVars>>

Return ==
    /\ pc = "loop" /\ WorklistEmpty(NamesState)
    /\ SetNames(ReturnNames(NamesState))
    /\ UNCHANGED <<mainVars, extractVars, decompressVars, runVars>>

\* the statement extractModuleNames executes next in state s
StepNames(s) ==
    CASE s.pc = "seed" -> SeedNames(s)
      [] s.pc = "props" -> VisitRequire(s)
      [] s.pc = "loop" /\ WorklistEmpty(s) -> ReturnNames(s)
      [] s.pc = "loop" /\ ~WorklistEmpty(s) /\ HeadUnnamed(s) -> DeferProperty(s)
      [] s.pc = "loop" /\ ~WorklistEmpty(s) /\ ~HeadUnnamed(s) -> EnterProperty(s)
      [] OTHER -> s

\* extractModuleNames(mo, mn) run for at most `fuel` statements
RECURSIVE RunNames(_, _)
RunNames(s, fuel) ==
    IF s.pc = "done" \/ fuel = 0 THEN s ELSE RunNames(StepNames(s), fuel - 1)

\* the variables of extractModuleNames hold the state s
NamesAre(s) ==
    /\ moduleObject = s.moduleObject
    /\ main = s.main
    /\ moduleNames = s.moduleNames
    /\ properties = s.properties
    /\ objectProperty = s.objectProperty
    /\ moduleName = s.moduleName
    /\ propIndex = s.propIndex
    /\ warnings = s.warnings
    /\ conflicts = s.conflicts
    /\ pc = s.pc

\* the state outside a call of extractModuleNames
NamesIdle == [NamesStart(<<>>, <<1>>) EXCEPT !.pc = "idle"]

NextNames == Seed \/ Defer \/ Enter \/ Visit \/ Return


(***************************************************************************)
(* The require graph of a module map.                                      *)
(***************************************************************************)
MapKeys(mo) == { mo[i].key : i \in 1..Len(mo) }

\* the ids the entries of mo with a key in S require
Targets(mo, S) ==
    UNION { { mo[i].requireMapping[j].value : j \in 1..Len(mo[i].requireMapping) }
            : i \in { k \in 1..Len(mo) : mo[k].key \in S } }

RECURSIVE ReachFrom(_, _)
ReachFrom(mo, S) ==
    LET T == S \cup Targets(mo, S)
    IN  IF T = S THEN S ELSE ReachFrom(mo, T)

Acyclic(mo) == \A id \in MapKeys(mo) : id \notin ReachFrom(mo, Targets(mo, {id}))

MainIds == { main[i] : i \in 1..Len(main) }

Named == { id \in Ids : moduleNames[id] # Undefined }

AllRelative(mo) ==
    \A i \in 1..Len(mo) : \A j \in 1..Len(mo[i].requireMapping) :
        StartsWithDot(mo[i].requireMapping[j].key)

\* the module map with its entries in the order perm
Permute(mo, perm) == [i \in 1..Len(mo) |-> mo[perm[i]]]

Orders(mo) == DistinctSeqs(1..Len(mo), Len(mo))

\* statements a returning run of extractModuleNames executes at most: the
\* seeding, the return, and per entry its deferrals, its entering, its requires
RunFuel == 2 + MaxModules * (MaxModules + 1) + MaxProps

(***************************************************************************)
(* The require-map entry forEach is about to visit (pc = "props").         *)
(***************************************************************************)
VisitedTarget == objectProperty.requireMapping[propIndex].value

VisitedCandidate ==
    CandidateName(moduleName, objectProperty.requireMapping[propIndex].key)

\* the target has a name and the candidate differs from it, case aside
NamingConflict ==
    /\ pc = "props"
    /\ moduleNames[VisitedTarget] # Undefined
    /\ ToLowerCase(moduleNames[VisitedTarget]) # ToLowerCase(VisitedCandidate)

CandidateShorter ==
    StrLength(VisitedCandidate) < StrLength(moduleNames[VisitedTarget])

\* n with '/index' appended zero or more times
RECURSIVE IndexSuffixed(_, _)
IndexSuffixed(n, m) ==
    \/ m = n
    \/ /\ Len(m) > Len(n)
       /\ m[Len(m)] = "index"
       /\ IndexSuffixed(n, SubSeq(m, 1, Len(m) - 1))

(***************************************************************************)
(* Claims about extractModuleNames.                                        *)
(***************************************************************************)

\* C1: extractModuleNames terminates on every module map and entry-id list:
\* every run reaches the return of the Name Table.
C1_Terminates == <>(pc = "done")

\* C2: for a bundle without require cycles and with a single entry id, no id
\* unreachable from the entry id is ever named, a named id other than the
\* entry id is required by a named module of the map, and the returned Name
\* Table names every reachable id with a non-empty name.
C2_ReachableNamed ==
    (Acyclic(moduleObject) /\ Len(main) = 1 /\ pc # "seed") =>
        /\ Named \subseteq ReachFrom(moduleObject, MainIds)
        /\ \A id \in Named \ MainIds :
               \E k \in MapKeys(moduleObject) \cap Named :
                   id \in Targets(moduleObject, {k})
        /\ pc = "done" =>
               \A id \in ReachFrom(moduleObject, MainIds) :
                   StrLength(moduleNames[id]) > 0

\* a returned table that names an id required from the single entry id and
\* leaves an id no module requires unnamed
C2_Witness ==
    /\ pc = "done" /\ Acyclic(moduleObject) /\ Len(main) = 1
    /\ Named \ MainIds # {}
    /\ Named # Ids

\* C3 as claimed: with relative specifiers only, resolving any reordering of
\* the module map's entries returns the same Name Table.
C3_OrderIndependent ==
    (pc = "done" /\ AllRelative(moduleObject)) =>
        \A perm \in Orders(moduleObject) :
            LET r == RunNames(NamesStart(Permute(moduleObject, perm), main), RunFuel)
            IN  r.pc = "done" /\ r.moduleNames = moduleNames

\* C3 as amended: with relative specifiers only, and no candidate computed
\* for an already named id differing from that id's name, resolving any
\* reordering of the module map's entries returns the same Name Table.
C3_OrderIndependentNoConflict ==
    (pc = "done" /\ AllRelative(moduleObject) /\ conflicts = 0) =>
        \A perm \in Orders(moduleObject) :
            LET r == RunNames(NamesStart(Permute(moduleObject, perm), main), RunFuel)
            IN  r.pc = "done" /\ r.moduleNames = moduleNames

\* a returned, conflict-free table of a map of three entries, one of them
\* named through another non-entry module
C3_Witness ==
    /\ pc = "done" /\ AllRelative(moduleObject) /\ conflicts = 0
    /\ Len(moduleObject) = MaxModules
    /\ \E id \in Named \ MainIds : id \notin Targets(moduleObject, MainIds)

C5_NamesImmutable ==
    [][\A id \in Ids :
          moduleNames[id] # Undefined =>
              IndexSuffixed(moduleNames[id], moduleNames'[id])]_namesVars

\* a returned table in which a conflict was met and a name carries '/index'
C5_Witness ==
    /\ pc = "done" /\ conflicts > 0
    /\ \E id \in Named : Len(moduleNames[id]) > 1 /\ moduleNames[id][1] = "browser"

\* C6: when a require-map names a target id that is no key of the module
\* map, the run fails: it does not return a Name Table and gives the absent
\* id no name.
C6_AbsentTargetFails ==
    \A id \in Targets(moduleObject, MapKeys(moduleObject)) \ MapKeys(moduleObject) :
        /\ pc # "done"
        /\ id \notin MainIds => moduleNames[id] = Undefined

(***************************************************************************)
(* findMainFunction.  A program tree is the list of its nodes in the order *)
(* TreeWalker visits them (a node, then its children), each with its depth *)
(* below the AST_Toplevel at position 1; the children of a node are the    *)
(* nodes one deeper that follow it before the next node no deeper than it. *)
(***************************************************************************)
\* nodes of a program tree below its AST_Toplevel
MaxNodes == 4

NodeTypes == {"Call", "Function", "Other"}

ProgramTrees ==
    UNION { { <<[type |-> "Toplevel", depth |-> 0]>> \o t :
                t \in { u \in [1..n -> [type : NodeTypes, depth : 1..n]] :
                          /\ n > 0 => u[1].depth = 1
                          /\ \A i \in 1..(n - 1) : u[i + 1].depth <= u[i].depth + 1 } }
            : n \in 0..MaxNodes }

\* the first node after position i that is not below node i
NextSibling(tree, i) ==
    IF \E j \in (i + 1)..Len(tree) : tree[j].depth <= tree[i].depth
    THEN CHOOSE j \in (i + 1)..Len(tree) :
             /\ tree[j].depth <= tree[i].depth
             /\ \A k \in (i + 1)..(j - 1) : tree[k].depth > tree[i].depth
    ELSE Len(tree) + 1

\* a visitor that returns nothing, so that the walker descends into the call
AfterMatchDescends(tree, i) == i + 1

\* line 100: the visitor returns true, so the walker does not descend
AfterMatch(tree, i) == NextSibling(tree, i)

\* the variables of findMainFunction hold the state s
MainAre(s) ==
    /\ ast = s.ast
    /\ position = s.position
    /\ mainFunctionCall = s.mainFunctionCall
    /\ mainPc = s.mainPc

\* lines 91-104: a call findMainFunction(tree) begins
MainStart(tree) ==
    [ast |-> tree, position |-> 1, mainFunctionCall |-> 0, mainPc |-> "walk"]

\* the state outside a call of findMainFunction
MainIdle == [MainStart(<<[type |-> "Toplevel", depth |-> 0]>>) EXCEPT !.mainPc = "idle"]

\* lines 94-95, 102: a node that is no AST_Call: the walker descends
VisitNode ==
    /\ mainPc = "walk" /\ position <= Len(ast)
    /\ ast[position].type # "Call"
    /\ position' = position + 1
    /\ UNCHANGED <<ast, mainFunctionCall, mainPc, namesVars, extractVars, decompressVars, runVars>>

\* lines 95-100: the first AST_Call met
VisitCall ==
    /\ mainPc = "walk" /\ position <= Len(ast)
    /\ ast[position].type = "Call"
    /\ mainFunctionCall = 0
    /\ mainFunctionCall' = position
    /\ position' = AfterMatch(ast, position)
    /\ UNCHANGED <<ast, mainPc, namesVars, extractVars, decompressVars, runVars>>

\* line 96: the assertion fails on a second AST_Call
ThrowMoreThanOne ==
    /\ mainPc = "walk" /\ position <= Len(ast)
    /\ ast[position].type = "Call"
    /\ mainFunctionCall # 0
    /\ mainPc' = "threw"
    /\ UNCHANGED <<ast, position, mainFunctionCall, namesVars, extractVars, decompressVars, runVars>>

\* lines 104-106: the walk is over
ReturnMain ==
    /\ mainPc = "walk" /\ position > Len(ast)
    /\ mainPc' = "returned"
    /\ UNCHANGED <<ast, position, mainFunctionCall, namesVars, extractVars, decompressVars, runVars>>

NextMain == VisitNode \/ VisitCall \/ ThrowMoreThanOne \/ ReturnMain

(***************************************************************************)
(* Claims about findMainFunction.                                          *)
(***************************************************************************)
\* the nodes node i lies below
Ancestors(tree, i) ==
    { a \in 1..(i - 1) :
        /\ tree[a].depth < tree[i].depth
        /\ \A k \in (a + 1)..i : tree[k].depth > tree[a].depth }

Calls(tree) == { i \in 1..Len(tree) : tree[i].type = "Call" }

\* the calls that lie in no other call's callee or arguments
OutermostCalls(tree) ==
    { i \in Calls(tree) : \A a \in Ancestors(tree, i) : tree[a].type # "Call" }

\* the calls that lie in no function's body and in no other call
TopLevelCalls(tree) ==
    { i \in Calls(tree) : \A a \in Ancestors(tree, i) : tree[a].type \notin {"Call", "Function"} }

\* C8: findMainFunction counts the calls that lie in no other call: with none
\* it returns undefined, with one it returns that call, with more it throws.
C8_CountsOutermostCalls ==
    mainPc \in {"returned", "threw"} =>
        LET n == Cardinality(OutermostCalls(ast))
        IN  /\ n = 0 => mainPc = "returned" /\ mainFunctionCall = 0
            /\ n = 1 => mainPc = "returned" /\ OutermostCalls(ast) = {mainFunctionCall}
            /\ n > 1 => mainPc = "threw"

\* the one outermost call is returned although further calls lie inside it
C8_Witness ==
    /\ mainPc = "returned" /\ mainFunctionCall # 0
    /\ Cardinality(Calls(ast)) > 1

\* C9: a call in the body of a function that is part of no matched call is
\* no match: a program whose only call outside function bodies is one
\* top-level call returns that call and does not throw.
C9_OnlyTopLevelCalls ==
    (mainPc \in {"returned", "threw"} /\ Cardinality(TopLevelCalls(ast)) = 1) =>
        mainPc = "returned" /\ TopLevelCalls(ast) = {mainFunctionCall}

(***************************************************************************)
(* extractModules.  A module function is its parameters (name and the      *)
(* mangled_name of their definition, "" when it has none) and the calls    *)
(* of its body; a call's expression is a reference (to parameter `param`,  *)
(* or to no parameter when param = 0) or some other expression.            *)
(***************************************************************************)
\* the require specifiers of the bundles extracted
ExtractSpecifiers ==
    { <<".", "a">>, <<"fs">>, <<"lodash">>, <<"Vendor">>, <<"@s", "p">>,
      <<".", "node_modules">> }

\* the string arguments of the calls in module bodies
ArgumentValues == { <<".", "a">>, <<".", "a.js">>, <<"lodash">>, <<".", "0">> }

ArgumentLists ==
    {<<>>, <<[type |-> "Other", value |-> <<>>]>>}
    \cup { <<[type |-> "String", value |-> v]>> : v \in ArgumentValues }
    \cup { <<[type |-> "String", value |-> v], [type |-> "String", value |-> v]>> :
             v \in { <<".", "a">> } }

ParameterLists == { <<"require", "module">>, <<"e", "t">> }

\* what a call's expression can be in a function with the parameters names
Expressions(names) ==
    { [type |-> "SymbolRef", name |-> names[k], param |-> k] : k \in 1..Len(names) }
    \cup { [type |-> "SymbolRef", name |-> n, param |-> 0] :
             n \in {"require"} \ { names[k] : k \in 1..Len(names) } }
    \cup { [type |-> "Dot", name |-> "", param |-> 0] }

\* the module functions: two parameters and one call
ModuleFunctions ==
    UNION { { [argnames |-> [k \in 1..Len(names) |-> [name |-> names[k], mangled_name |-> ""]],
               body |-> <<[type |-> "Call", expression |-> e, args |-> a]>>] :
                e \in Expressions(names), a \in ArgumentLists }
            : names \in ParameterLists }

\* the require-maps over specs: at most MaxProps entries with distinct keys
RequireMappings(specs) ==
    UNION { { r \in [1..k -> [key : specs, value : Ids]] :
                \A i, j \in 1..k : r[i].key = r[j].key => i = j }
            : k \in 0..MaxProps }

\* the module map extracted: keys 1..n, every entry with the function f, the
\* entry module 1 with the require-map r
ExtractObject(n, r, f) ==
    [i \in 1..n |->
        [key |-> i, moduleFunction |-> f, requireMapping |-> IF i = 1 THEN r ELSE <<>>]]

\* is-builtin-module (line 12): the host's static list
IsBuiltinModule(seg) == seg \in {"fs", "path"}

\* name[0] === '@'
StartsWithAt(seg) == seg \in {"@s"}

\* path.basename(p, '.js') of one segment
StripJs(seg) ==
    CASE seg = "a.js" -> "a"
      [] OTHER -> seg

\* path.basename(p, '.js')
Basename(p) == StripJs(p[Len(p)])

\* a builtin filter that lets every entry through
IsNotBuiltinModuleAlways(names, property) == TRUE

\* lines 244-249
IsNotBuiltinModule(names, property) ==
    LET path == names[property.key]
    IN  ~(path[1] = "node_modules" /\ Len(path) >= 2 /\ IsBuiltinModule(path[2]))

\* lines 251-270: "threw" is the TypeError of name[0] when path[1] is missing
IsNotPublishedDependency(names, property) ==
    LET path == names[property.key]
        name == IF Len(path) >= 3 /\ StartsWithAt(path[2])
                THEN <<path[2], path[3]>> ELSE <<path[2]>>
    IN  IF path[1] # "node_modules" THEN [threw |-> FALSE, keep |-> TRUE, add |-> {}]
        ELSE IF Len(path) < 2 THEN [threw |-> TRUE, keep |-> FALSE, add |-> {}]
        ELSE IF name = ToLowerCase(name)
             THEN [threw |-> FALSE, keep |-> FALSE, add |-> {name}]
             ELSE [threw |-> FALSE, keep |-> TRUE, add |-> {}]

\* line 277: .filter(isNotBuiltinModule, moduleNames)
FilterBuiltins(names, props) ==
    SelectSeq(props, LAMBDA property : IsNotBuiltinModule(names, property))

\* line 278: .filter(isNotPublishedDependency, moduleNames), entry by entry
RECURSIVE FilterPublished(_, _, _, _)
FilterPublished(names, props, kept, deps) ==
    IF props = <<>> THEN [threw |-> FALSE, kept |-> kept, deps |-> deps]
    ELSE LET r == IsNotPublishedDependency(names, Head(props))
         IN  IF r.threw THEN [threw |-> TRUE, kept |-> kept, deps |-> deps]
             ELSE FilterPublished(names, Tail(props),
                                  IF r.keep THEN Append(kept, Head(props)) ELSE kept,
                                  deps \cup r.add)

\* lines 285-292: the pairs [rKey, name of the target]
ModuleMapping(names, requireMapping) ==
    [j \in 1..Len(requireMapping) |->
        <<Basename(requireMapping[j].key), names[requireMapping[j].value]>>]

\* lines 279-295
ModuleDefinition(names, property) ==
    [moduleName |-> names[property.key],
     moduleFunction |-> property.moduleFunction,
     moduleMapping |-> ModuleMapping(names, property.requireMapping)]

\* lines 161-164
argNames == <<"require", "module", "exports", "moduleSource", "loadedModules", "mainIds">>

\* lines 160-174
RenameArguments(moduleFunction) ==
    [moduleFunction EXCEPT !.argnames =
        [i \in 1..Len(moduleFunction.argnames) |->
            IF moduleFunction.argnames[i].name # argNames[i]
            THEN [moduleFunction.argnames[i] EXCEPT !.mangled_name = argNames[i]]
            ELSE moduleFunction.argnames[i]]]

\* line 189: mapping[name] where mapping is the array of pairs and name a
\* string: an element when name is an index of the array, else undefined
\* ('length' and the names of Array.prototype are not among the basenames)
MappingLookup(mapping, name) ==
    CASE name = "0" /\ Len(mapping) >= 1 -> mapping[1]
      [] name = "1" /\ Len(mapping) >= 2 -> mapping[2]
      [] OTHER -> Undefined

\* String(pair): 'rKey,name', split at the '/' of name
PairToString(pair) == <<pair[1] \o "," \o Head(pair[2])>> \o Tail(pair[2])

\* line 190: './' + s + '.js'
DotSlashJs(s) == <<".">> \o SubSeq(s, 1, Len(s) - 1) \o <<s[Len(s)] \o ".js">>

\* lines 180-185: the calls updateRequires rewrites
IsRequireCall(moduleFunction, node) ==
    /\ node.type = "Call"
    /\ node.expression.type = "SymbolRef"
    /\ \/ node.expression.name = "require"
       \/ /\ node.expression.param # 0
          /\ moduleFunction.argnames[node.expression.param].mangled_name = "require"
    /\ Len(node.args) = 1
    /\ node.args[1].type = "String"

\* lines 179-193: the visitor on one node
UpdateCall(moduleFunction, node, mapping) ==
    IF IsRequireCall(moduleFunction, node)
       /\ MappingLookup(mapping, Basename(node.args[1].value)) # Undefined
    THEN [node EXCEPT !.args[1].value =
              DotSlashJs(PairToString(MappingLookup(mapping, Basename(node.args[1].value))))]
    ELSE node

\* lines 176-196
UpdateRequires(moduleFunction, mapping) ==
    [moduleFunction EXCEPT !.body =
        [k \in 1..Len(moduleFunction.body) |-> UpdateCall(moduleFunction, moduleFunction.body[k], mapping)]]

\* lines 301-311: modules[moduleName] gets the statements of the function
AddToModules(mods, name, body) ==
    IF name \in DOMAIN mods
    THEN [mods EXCEPT ![name] = @ \o body]
    ELSE mods @@ (name :> body)

\* the variables of extractModules hold the state s
ExtractAre(s) ==
    /\ dependencies = s.dependencies
    /\ moduleProperties = s.moduleProperties
    /\ modules = s.modules
    /\ assembled = s.assembled
    /\ exPc = s.exPc

\* a call of extractModules begins, in a process that has extracted nothing
ExtractStart ==
    [dependencies |-> {}, moduleProperties |-> <<>>, modules |-> <<>>,
     assembled |-> 0, exPc |-> "filterBuiltin"]

\* the state outside a call of extractModules
ExtractIdle == [ExtractStart EXCEPT !.exPc = "idle"]

\* lines 273-277
FilterBuiltinStep ==
    /\ exPc = "filterBuiltin"
    /\ modules' = (<<"browser">> :> <<>>)
    /\ moduleProperties' = FilterBuiltins(moduleNames, moduleObject)
    /\ exPc' = "filterPublished"
    /\ UNCHANGED <<dependencies, assembled, namesVars, mainVars, decompressVars, runVars>>

\* line 278
FilterPublishedStep ==
    /\ exPc = "filterPublished"
    /\ LET r == FilterPublished(moduleNames, moduleProperties, <<>>, dependencies)
       IN  /\ dependencies' = r.deps
           /\ moduleProperties' = r.kept
           /\ exPc' = IF r.threw THEN "threw" ELSE "map"
    /\ UNCHANGED <<modules, assembled, namesVars, mainVars, decompressVars, runVars>>

\* lines 279-298
MapStep ==
    /\ exPc = "map"
    /\ moduleProperties' =
           [i \in 1..Len(moduleProperties) |-> ModuleDefinition(moduleNames, moduleProperties[i])]
    /\ exPc' = "assemble"
    /\ UNCHANGED <<dependencies, modules, assembled, namesVars, mainVars, decompressVars, runVars>>

\* lines 300-312: one round of resolvedModuleProperties.forEach
AssembleStep ==
    /\ exPc = "assemble" /\ assembled < Len(moduleProperties)
    /\ LET d == moduleProperties[assembled + 1]
           f == UpdateRequires(RenameArguments(d.moduleFunction), d.moduleMapping)
       IN  /\ moduleProperties' = [moduleProperties EXCEPT ![assembled + 1].moduleFunction = f]
           /\ modules' = AddToModules(modules, d.moduleName, f.body)
    /\ assembled' = assembled + 1
    /\ UNCHANGED <<dependencies, exPc, namesVars, mainVars, decompressVars, runVars>>

\* line 314
ReturnModules ==
    /\ exPc = "assemble" /\ assembled = Len(moduleProperties)
    /\ exPc' = "returned"
    /\ UNCHANGED <<dependencies, moduleProperties, modules, assembled, namesVars, mainVars, decompressVars, runVars>>

NextExtract ==
    FilterBuiltinStep \/ FilterPublishedStep \/ MapStep \/ AssembleStep \/ ReturnModules

(***************************************************************************)
(* decompress (the text of decompress.js, src/test/test.js lines 203-413). *)
(*                                                                         *)
(* A node of a program tree is a record with its type and its fields; a    *)
(* missing child (null) is the node Null.  A comma-expression has the two  *)
(* fields the code reads, car and cdr.  A Block holds a list of            *)
(* statements in body; a statement with a body holds one statement.        *)
(* TreeTransformer calls its `before` function on a node and, when that    *)
(* returns nothing, transforms the children of the node in place.          *)
(***************************************************************************)
\* the nesting of the operators in an explored expression
MaxDepth == 2

Null == [type |-> "Null"]

AST_SymbolRef(name) == [type |-> "SymbolRef", name |-> name]

AST_Number(value) == [type |-> "Number", value |-> value]

AST_Call(expression) == [type |-> "Call", expression |-> expression]

AST_Dot(expression, property) ==
    [type |-> "Dot", expression |-> expression, property |-> property]

AST_Sequence(car, cdr) == [type |-> "Sequence", car |-> car, cdr |-> cdr]

AST_Binary(operator, left, right) ==
    [type |-> "Binary", operator |-> operator, left |-> left, right |-> right]

AST_UnaryPrefix(operator, expression) ==
    [type |-> "UnaryPrefix", operator |-> operator, expression |-> expression]

AST_Conditional(condition, consequent, alternative) ==
    [type |-> "Conditional", condition |-> condition,
     consequent |-> consequent, alternative |-> alternative]

AST_Assign(left, right) == [type |-> "Assign", left |-> left, right |-> right]

AST_SimpleStatement(body) == [type |-> "SimpleStatement", body |-> body]

AST_Return(value) == [type |-> "Return", value |-> value]

AST_If(condition, body, alternative) ==
    [type |-> "If", condition |-> condition, body |-> body,
     alternative |-> alternative]

AST_VarDef(name, value) == [type |-> "VarDef", name |-> name, value |-> value]

AST_Var(definitions) == [type |-> "Var", definitions |-> definitions]

AST_BlockStatement(body) == [type |-> "BlockStatement", body |-> body]

AST_Toplevel(body) == [type |-> "Toplevel", body |-> body]

AST_For(init, body) == [type |-> "For", init |-> init, body |-> body]

AST_With(expression, body) ==
    [type |-> "With", expression |-> expression, body |-> body]

AST_Switch(expression, body) ==
    [type |-> "Switch", expression |-> expression, body |-> body]

\* instanceof AST_Block
BlockTypes == {"BlockStatement", "Toplevel", "Switch"}

\* instanceof AST_StatementWithBody
StatementWithBodyTypes == {"If", "For", "With"}

\* instanceof AST_Statement
StatementTypes ==
    BlockTypes \cup StatementWithBodyTypes \cup {"SimpleStatement", "Return", "Var"}

\* lines 206-210
defaultOptions == [constants |-> TRUE, sequences |-> TRUE, conditionals |-> TRUE]

\* lines 212-218
asStatement(node) ==
    IF node.type \in StatementTypes THEN node ELSE AST_SimpleStatement(node)

\* lines 256-263: the slot of each statement type that may hold a sequence
nodeTypes ==
    << [type |-> "Return", field |-> "value"],
       [type |-> "SimpleStatement", field |-> "body"],
       [type |-> "If", field |-> "condition"],
       [type |-> "For", field |-> "init"],
       [type |-> "With", field |-> "expression"],
       [type |-> "Switch", field |-> "expression"] >>

\* Array.prototype.find on the flags of the elements (the test applied to
\* each): the index of the first element whose flag is set; 0 when none is
FindIndex(flags) ==
    IF \E k \in 1..Len(flags) : flags[k]
    THEN CHOOSE k \in 1..Len(flags) : flags[k] /\ \A j \in 1..(k - 1) : ~flags[j]
    ELSE 0

\* lines 265-301 on d and t as SplitSequence finds them: Undefined when the
\* callback returns nothing, else the two statements that replace child
SplitAt(child, d, t) ==
        IF d # 0
        THEN << AST_SimpleStatement(child.definitions[d].value.car),
                [child EXCEPT !.definitions[d].value = @.cdr] >>
        ELSE IF /\ child.type = "SimpleStatement"
                /\ child.body.type = "Assign"
                /\ child.body.right.type = "Sequence"
        THEN << AST_SimpleStatement(child.body.right.car),
                [child EXCEPT !.body.right = @.cdr] >>
        ELSE IF t # 0
        THEN << AST_SimpleStatement(child[nodeTypes[t].field].car),
                [child EXCEPT ![nodeTypes[t].field] = @.cdr] >>
        ELSE Undefined

\* lines 265-301: the callback of removeSequences.  d: the first declarator
\* of a var statement whose value is a sequence (line 269); t: the first
\* entry of nodeTypes that child matches (line 282)
SplitSequence(child) ==
    SplitAt(child,
            IF child.type = "Var"
            THEN FindIndex([k \in 1..Len(child.definitions) |->
                                child.definitions[k].value.type = "Sequence"])
            ELSE 0,
            FindIndex([k \in 1..Len(nodeTypes) |->
                           /\ child.type = nodeTypes[k].type
                           /\ child[nodeTypes[k].field].type = "Sequence"]))

\* lines 391-397: the callback of the 'return void a();' rule
SplitVoid(child) ==
    IF /\ child.type = "Return"
       /\ child.value.type = "UnaryPrefix"
       /\ child.value.operator = "void"
    THEN << AST_SimpleStatement(child.value.expression), AST_Return(Null) >>
    ELSE Undefined

\* the callback replaceInBlock is given
Replace(rule, child) ==
    IF rule = "sequences" THEN SplitSequence(child) ELSE SplitVoid(child)

\* lines 234-244: the loop of replaceInBlock from index i on (i counts from 1)
RECURSIVE ReplaceFrom(_, _, _)
\* lines 236-243: newNodes spliced in place of body[i] and offered again,
\* or the next index
Splice(rule, body, i, newNodes) ==
    IF newNodes # Undefined
    THEN ReplaceFrom(rule,
                     SubSeq(body, 1, i - 1) \o newNodes
                         \o SubSeq(body, i + 1, Len(body)),
                     i)
    ELSE ReplaceFrom(rule, body, i + 1)

ReplaceFrom(rule, body, i) ==
    IF i > Len(body) THEN body
    ELSE Splice(rule, body, i, Replace(rule, body[i]))

\* body instanceof AST_Node: a field that holds one node, not a list
SingleField(node, field) == ~(node.type \in BlockTypes /\ field = "body")

\* lines 220-254
\* lines 246-252: the list body put back in the field
Rewrap(node, field, body) ==
    IF SingleField(node, field)
    THEN [node EXCEPT ![field] =
              IF Len(body) = 1 THEN body[1] ELSE AST_BlockStatement(body)]
    ELSE [node EXCEPT ![field] = body]

replaceInBlock(node, field, rule) ==
    IF SingleField(node, field) /\ node[field] = Null THEN node
    ELSE Rewrap(node, field,
                ReplaceFrom(rule,
                            IF SingleField(node, field) THEN <<node[field]>>
                            ELSE node[field],
                            1))

\* lines 256-302
removeSequences(node, field) == replaceInBlock(node, field, "sequences")

\* lines 305-330: the literal a constant idiom stands for, Null when none
ConstantOf(node) ==
    IF /\ node.type = "Binary" /\ node.operator = "/"
       /\ node.left.type = "Number" /\ node.left.value = 0
       /\ node.right.type = "Number" /\ node.right.value = 0
    THEN [type |-> "NaN"]
    ELSE IF /\ node.type = "Binary" /\ node.operator = "/"
            /\ node.left.type = "Number" /\ node.left.value = 1
            /\ node.right.type = "Number" /\ node.right.value = 0
    THEN [type |-> "Infinity"]
    ELSE IF /\ node.type = "UnaryPrefix" /\ node.operator = "!"
            /\ node.expression.type = "Number"
            /\ node.expression.value = 0
    THEN [type |-> "True"]
    ELSE IF /\ node.type = "UnaryPrefix" /\ node.operator = "!"
            /\ node.expression.type = "Number"
            /\ node.expression.value = 1
    THEN [type |-> "False"]
    ELSE Null

\* lines 332-341
\* lines 337-339
AlternativeOf(node) ==
    IF node.type = "If" THEN removeSequences(node, "alternative") ELSE node

SequencesOf(node) ==
    AlternativeOf(IF node.type \in BlockTypes \cup StatementWithBodyTypes
                  THEN removeSequences(node, "body")
                  ELSE node)

\* a return rule that takes the branches the wrong way round
ConditionalOfSwapped(node) ==
    IF /\ node.type = "SimpleStatement" /\ node.body.type = "Binary"
       /\ node.body.operator = "&&"
    THEN AST_If(node.body.left, asStatement(node.body.right), Null)
    ELSE IF /\ node.type = "SimpleStatement" /\ node.body.type = "Binary"
            /\ node.body.operator = "||"
    THEN AST_If(AST_UnaryPrefix("!", node.body.left), asStatement(node.body.right), Null)
    ELSE IF node.type = "SimpleStatement" /\ node.body.type = "Conditional"
    THEN AST_If(node.body.condition, asStatement(node.body.consequent),
                asStatement(node.body.alternative))
    ELSE IF node.type = "Return" /\ node.value.type = "Conditional"
    THEN AST_If(node.value.condition, AST_Return(node.value.alternative),
                AST_Return(node.value.consequent))
    ELSE Null

\* lines 344-387: the if statement a conditional idiom stands for, Null when
\* none
ConditionalOf(node) ==
    IF /\ node.type = "SimpleStatement" /\ node.body.type = "Binary"
       /\ node.body.operator = "&&"
    THEN AST_If(node.body.left, asStatement(node.body.right), Null)
    ELSE IF /\ node.type = "SimpleStatement" /\ node.body.type = "Binary"
            /\ node.body.operator = "||"
    THEN AST_If(AST_UnaryPrefix("!", node.body.left), asStatement(node.body.right), Null)
    ELSE IF node.type = "SimpleStatement" /\ node.body.type = "Conditional"
    THEN AST_If(node.body.condition, asStatement(node.body.consequent),
            asStatement(node.body.alternative))
    ELSE IF node.type = "Return" /\ node.value.type = "Conditional"
    THEN AST_If(node.value.condition, AST_Return(node.value.consequent),
            AST_Return(node.value.alternative))
    ELSE Null

\* lines 389-399
VoidOf(node) ==
    IF node.type \in BlockTypes \cup StatementWithBodyTypes
    THEN replaceInBlock(node, "body", "void")
    ELSE node

RECURSIVE transform(_, _)
RECURSIVE transformBefore(_, _)
RECURSIVE descend(_, _)

\* lines 304-401, from the values its rules compute: constant, the literal of lines 305-330; split: the node after lines
\* 332-341; made: the if statement of lines 344-387
Outcome(options, constant, split, made) ==
    IF constant # Null THEN [returned |-> TRUE, node |-> constant]
    ELSE IF made # Null
    THEN [returned |-> TRUE, node |-> transform(options, made)]
    ELSE [returned |-> FALSE,
          node |-> IF options.conditionals THEN VoidOf(split) ELSE split]

\* lines 343-387 on the node lines 332-341 left
AfterSequences(options, constant, split) ==
    Outcome(options, constant, split,
            IF options.conditionals THEN ConditionalOf(split) ELSE Null)

\* lines 304-401: [returned |-> the function returned a node, node |-> that
\* node, or the visited node as the function left it]
transformBefore(options, node) ==
    AfterSequences(options,
                   IF options.constants THEN ConstantOf(node) ELSE Null,
                   IF options.sequences THEN SequencesOf(node) ELSE node)

\* what TreeTransformer does with x, the result of before: the node it
\* returned, or the visited node with its children transformed
AfterBefore(options, x) ==
    IF x.returned THEN x.node ELSE descend(options, x.node)

\* TreeTransformer: node.transform(tw) with tw.before = transformBefore
transform(options, node) ==
    IF node = Null THEN Null
    ELSE AfterBefore(options, transformBefore(options, node))

\* the children of node transformed in place
descend(options, node) ==
    LET T(child) == transform(options, child)
        List(s) == [k \in 1..Len(s) |-> T(s[k])]
    IN  CASE node.type = "SimpleStatement" -> [node EXCEPT !.body = T(@)]
          [] node.type = "Return" -> [node EXCEPT !.value = T(@)]
          [] node.type = "If" ->
                [node EXCEPT !.condition = T(@), !.body = T(@), !.alternative = T(@)]
          [] node.type = "Var" -> [node EXCEPT !.definitions = List(@)]
          [] node.type = "VarDef" -> [node EXCEPT !.value = T(@)]
          [] node.type \in {"BlockStatement", "Toplevel"} ->
                [node EXCEPT !.body = List(@)]
          [] node.type = "Switch" ->
                [node EXCEPT !.expression = T(@), !.body = List(@)]
          [] node.type = "For" -> [node EXCEPT !.init = T(@), !.body = T(@)]
          [] node.type = "With" -> [node EXCEPT !.expression = T(@), !.body = T(@)]
          [] node.type = "Sequence" -> [node EXCEPT !.car = T(@), !.cdr = T(@)]
          [] node.type = "Binary" -> [node EXCEPT !.left = T(@), !.right = T(@)]
          [] node.type = "UnaryPrefix" -> [node EXCEPT !.expression = T(@)]
          [] node.type = "Conditional" ->
                [node EXCEPT !.condition = T(@), !.consequent = T(@),
                             !.alternative = T(@)]
          [] node.type = "Assign" -> [node EXCEPT !.left = T(@), !.right = T(@)]
          [] node.type \in {"Call", "Dot"} -> [node EXCEPT !.expression = T(@)]
          [] OTHER -> node

\* the root after node.transform(tw), x being the result of before
InPlace(options, node, x) == IF x.returned THEN node ELSE descend(options, x.node)

\* line 410: node.transform(transform) with its result dropped: a root that
\* transformBefore replaces stays as it was
decompressInPlace(node, userOptions) ==
    LET options == [k \in DOMAIN defaultOptions |->
                        IF k \in DOMAIN userOptions THEN userOptions[k]
                        ELSE defaultOptions[k]]
    IN  InPlace(options, node, transformBefore(options, node))

\* formatCode (src/test/test.js lines 27-33): with bracketize the printer
\* writes the body of a statement in braces, a block or not, and an else
\* branch too unless it is an if statement.  The printed form holds the
\* statements between the braces as a list.
RECURSIVE formatCode(_)
Braces(statement) ==
    IF statement.type = "BlockStatement"
    THEN [k \in 1..Len(statement.body) |-> formatCode(statement.body[k])]
    ELSE <<formatCode(statement)>>

formatCode(node) ==
    CASE node.type = "If" ->
            [type |-> "If", condition |-> node.condition,
             body |-> Braces(node.body),
             alternative |->
                 IF node.alternative = Null THEN <<>>
                 ELSE IF node.alternative.type = "If"
                 THEN <<formatCode(node.alternative)>>
                 ELSE Braces(node.alternative)]
      [] node.type \in {"For", "With"} -> [node EXCEPT !.body = Braces(@)]
      [] node.type \in {"BlockStatement", "Toplevel"} ->
            [node EXCEPT !.body = [k \in 1..Len(@) |-> formatCode(@[k])]]
      [] OTHER -> node

\* the programs explored: one statement around an expression
Leaves ==
    { AST_SymbolRef("a"), AST_Call(AST_SymbolRef("f")), AST_SymbolRef("undefined"),
      AST_Number(0), AST_Number(1) }

\* the expressions with e as an operand
OperatorsOn(e) ==
    { AST_Sequence(e, AST_SymbolRef("b")), AST_Sequence(AST_SymbolRef("b"), e),
      AST_Binary("&&", e, AST_SymbolRef("b")), AST_Binary("&&", AST_SymbolRef("b"), e),
      AST_Binary("||", e, AST_SymbolRef("b")), AST_Binary("||", AST_SymbolRef("b"), e),
      AST_Binary("/", e, AST_Number(0)),
      AST_UnaryPrefix("void", e), AST_UnaryPrefix("!", e),
      AST_Conditional(e, AST_SymbolRef("b"), AST_SymbolRef("c")),
      AST_Conditional(AST_SymbolRef("b"), e, AST_SymbolRef("c")),
      AST_Conditional(AST_SymbolRef("b"), AST_SymbolRef("c"), e),
      AST_Assign(AST_SymbolRef("x"), e),
      AST_Assign(AST_Dot(AST_Call(AST_SymbolRef("g")), "x"), e) }

RECURSIVE SourceExpressions(_)
SourceExpressions(depth) ==
    IF depth = 0 THEN Leaves
    ELSE LET E == SourceExpressions(depth - 1)
         IN  E \cup UNION { OperatorsOn(e) : e \in E }

\* the statements with the expression e in a slot
StatementsOn(e) ==
    { AST_SimpleStatement(e), AST_Return(e),
      AST_If(e, AST_SimpleStatement(AST_SymbolRef("b")), Null),
      AST_If(AST_SymbolRef("b"), AST_SimpleStatement(AST_SymbolRef("c")), AST_SimpleStatement(e)),
      AST_Var(<<AST_VarDef("x", AST_Call(AST_SymbolRef("g"))), AST_VarDef("y", e)>>),
      AST_For(e, AST_SimpleStatement(AST_SymbolRef("b"))),
      AST_With(e, AST_SimpleStatement(AST_SymbolRef("b"))),
      AST_Switch(e, <<>>) }

\* decompress is called twice in a row on the same tree at most
MaxRuns == 2

\* decompress(moduleTree) with no options
Decompress ==
    /\ runs < MaxRuns
    /\ moduleTree' = decompressInPlace(moduleTree, Undefined)
    /\ runs' = runs + 1
    /\ UNCHANGED <<program, namesVars, mainVars, extractVars, runVars>>

NextDecompress == Decompress

\* the variables of the normalizer hold the state s
DecompressAre(s) ==
    /\ program = s.program
    /\ moduleTree = s.tree
    /\ runs = s.runs

\* a parsed program, not yet normalized
DecompressStart(p) == [program |-> p, tree |-> p, runs |-> 0]

\* outside the normalizer
DecompressIdle == [program |-> Null, tree |-> Null, runs |-> MaxRuns]

(***************************************************************************)
(* unbrowserify (src/unbrowserify.js lines 340-398) with parseFile,        *)
(* outputCode and writePackageJson.                                        *)
(*                                                                         *)
(* The coroutine runs from the end of the read to the return of line 369   *)
(* without giving up control: the completions of directory creations, file *)
(* writes and version lookups happen only when no such stretch is running. *)
(* The kernel call's arguments are drawn when findMainFunction has         *)
(* returned the call.                                                      *)
(***************************************************************************)
\* calls of unbrowserify in one process
MaxInvocations == 2

\* the program trees of the bundles read
RunTrees == { t \in ProgramTrees : Len(t) <= 3 }

\* the specifiers of the require-maps of the bundles read
RunSpecifiers == { <<".", "a">>, <<"lodash">>, <<"@s", "p">>, <<".", "node_modules">> }

\* the module function of the bundles read: function (e, t) { e('./a') }
RunFunction ==
    [argnames |-> <<[name |-> "e", mangled_name |-> ""],
                    [name |-> "t", mangled_name |-> ""]>>,
     body |-> <<[type |-> "Call",
                 expression |-> [type |-> "SymbolRef", name |-> "e", param |-> 1],
                 args |-> <<[type |-> "String", value |-> <<".", "a">>]>>]>>]

\* no package.json written or under way
NoDescriptor == [state |-> "none", dependencies |-> {}, lookup |-> "none"]

\* the state outside a call of unbrowserify, in a new process
RunIdle ==
    [run |-> 0, runPc |-> "idle", failure |-> "none", promise |-> "none",
     keys |-> <<>>, mapIndex |-> 0, mapStep |-> "decompress",
     decompressed |-> {}, outputs |-> <<>>, descriptor |-> NoDescriptor]

\* the variables of unbrowserify hold the state s
RunAre(s) ==
    /\ run = s.run
    /\ runPc = s.runPc
    /\ failure = s.failure
    /\ promise = s.promise
    /\ moduleKeys = s.keys
    /\ mapIndex = s.mapIndex
    /\ mapStep = s.mapStep
    /\ decompressed = s.decompressed
    /\ outputs = s.outputs
    /\ descriptor = s.descriptor

SetMain(s) ==
    /\ ast' = s.ast
    /\ position' = s.position
    /\ mainFunctionCall' = s.mainFunctionCall
    /\ mainPc' = s.mainPc

\* the coroutine throws: the promise unbrowserify returned is rejected
Reject(why) ==
    /\ promise' = "rejected"
    /\ failure' = why
    /\ runPc' = "done"

\* nothing of an earlier call is under way
Quiescent ==
    /\ runPc \in {"idle", "done"}
    /\ \A m \in DOMAIN outputs : outputs[m] \notin {"mkdirp", "writing"}
    /\ descriptor.state \notin {"lookup", "writing"}

\* no stretch of the coroutine is running: completions can be delivered
Yielded == runPc \in {"awaiting", "done"}

\* lines 340-341, 61-62: unbrowserify is called; parseFile starts the read.
\* Only the process-wide set dependencies (line 18) outlives a call.
CallUnbrowserify ==
    /\ Quiescent /\ run < MaxInvocations
    /\ run' = run + 1
    /\ runPc' = "parse"
    /\ failure' = "none"
    /\ promise' = "pending"
    /\ moduleKeys' = <<>> /\ mapIndex' = 0 /\ mapStep' = "decompress"
    /\ decompressed' = {} /\ outputs' = <<>> /\ descriptor' = NoDescriptor
    /\ SetNames(NamesIdle) /\ SetMain(MainIdle)
    /\ moduleProperties' = <<>> /\ modules' = <<>> /\ assembled' = 0 /\ exPc' = "idle"
    /\ UNCHANGED <<dependencies, decompressVars>>

\* lines 62, 74: the read fails, or the parser reports an error
ReadFails ==
    /\ runPc = "parse"
    /\ Reject("read")
    /\ UNCHANGED <<run, moduleKeys, mapIndex, mapStep, decompressed, outputs, descriptor,
                   namesVars, mainVars, extractVars, decompressVars>>

\* lines 62-79, 358: the file is parsed and findMainFunction(ast) begins
Parsed ==
    /\ runPc = "parse"
    /\ \E t \in RunTrees : SetMain(MainStart(t))
    /\ runPc' = "match"
    /\ UNCHANGED <<run, failure, promise, moduleKeys, mapIndex, mapStep, decompressed,
                   outputs, descriptor, namesVars, extractVars, decompressVars>>

\* lines 96, 360, 364: findMainFunction throws, finds no call, or the first
\* argument of the call found is no object literal
MatchFails ==
    /\ runPc = "match"
    /\ mainPc \in {"threw", "returned"}
    /\ Reject("kernel")
    /\ SetMain(MainIdle)
    /\ UNCHANGED <<run, moduleKeys, mapIndex, mapStep, decompressed, outputs, descriptor,
                   namesVars, extractVars, decompressVars>>

\* lines 358-366: the call is found, its first argument is an object
\* literal, and extractModuleNames(moduleObject, main) begins
Matched ==
    /\ runPc = "match"
    /\ mainPc = "returned" /\ mainFunctionCall # 0
    /\ \E n \in 1..MaxModules, req \in RequireMappings(RunSpecifiers) :
           SetNames(NamesStart(ExtractObject(n, req, RunFunction), <<1>>))
    /\ SetMain(MainIdle)
    /\ runPc' = "resolve"
    /\ UNCHANGED <<run, failure, promise, moduleKeys, mapIndex, mapStep, decompressed,
                   outputs, descriptor, extractVars, decompressVars>>

\* lines 366-367: extractModuleNames has returned; extractModules begins
Resolved ==
    /\ runPc = "resolve" /\ pc = "done"
    /\ exPc' = "filterBuiltin"
    /\ runPc' = "extract"
    /\ UNCHANGED <<run, failure, promise, moduleKeys, mapIndex, mapStep, decompressed,
                   outputs, descriptor, dependencies, moduleProperties, modules,
                   assembled, namesVars, mainVars, decompressVars>>

\* line 367: extractModules throws
ExtractFails ==
    /\ runPc = "extract" /\ exPc = "threw"
    /\ Reject("assembly")
    /\ UNCHANGED <<run, moduleKeys, mapIndex, mapStep, decompressed, outputs, descriptor,
                   namesVars, mainVars, extractVars, decompressVars>>

\* Object.keys(modules): 'browser' (line 274), then the names in the order
\* extractModules first added them (line 303)
RECURSIVE KeysFrom(_, _)
KeysFrom(definitions, acc) ==
    IF definitions = <<>> THEN acc
    ELSE KeysFrom(Tail(definitions),
                  IF \E k \in 1..Len(acc) : acc[k] = Head(definitions).moduleName
                  THEN acc ELSE Append(acc, Head(definitions).moduleName))

ObjectKeys == KeysFrom(moduleProperties, << <<"browser">> >>)

\* lines 367-371: extractModules has returned; the map over the modules begins
Extracted ==
    /\ runPc = "extract" /\ exPc = "returned"
    /\ moduleKeys' = ObjectKeys
    /\ outputs' = [m \in { ObjectKeys[k] : k \in 1..Len(ObjectKeys) } |-> "none"]
    /\ mapIndex' = 0
    /\ mapStep' = "decompress"
    /\ runPc' = "map"
    /\ UNCHANGED <<run, failure, promise, decompressed, descriptor,
                   namesVars, mainVars, extractVars, decompressVars>>

\* line 373: decompress(module) in the map callback of the next module
DecompressModule ==
    /\ runPc = "map" /\ mapStep = "decompress" /\ mapIndex < Len(moduleKeys)
    /\ modules' = [modules EXCEPT ![moduleKeys[mapIndex + 1]] =
                       decompressInPlace(AST_Toplevel(@), Undefined).body]
    /\ decompressed' = decompressed \cup {moduleKeys[mapIndex + 1]}
    /\ mapStep' = "output"
    /\ UNCHANGED <<run, runPc, failure, promise, moduleKeys, mapIndex, outputs, descriptor,
                   dependencies, moduleProperties, assembled, exPc,
                   namesVars, mainVars, decompressVars>>

\* line 373: decompress(module) throws
DecompressThrows ==
    /\ runPc = "map" /\ mapStep = "decompress" /\ mapIndex < Len(moduleKeys)
    /\ Reject("normalization")
    /\ UNCHANGED <<run, moduleKeys, mapIndex, mapStep, decompressed, outputs, descriptor,
                   namesVars, mainVars, extractVars, decompressVars>>

\* lines 375-378, 82-88: outputCode(module, moduleFile) prints the module and
\* starts the creation of its directory
OutputCode ==
    /\ runPc = "map" /\ mapStep = "output"
    /\ outputs' = [outputs EXCEPT ![moduleKeys[mapIndex + 1]] = "mkdirp"]
    /\ mapIndex' = mapIndex + 1
    /\ mapStep' = "decompress"
    /\ UNCHANGED <<run, runPc, failure, promise, moduleKeys, decompressed, descriptor,
                   namesVars, mainVars, extractVars, decompressVars>>

\* lines 369-381: the map is over; the coroutine returns the promise of
\* Promise.all(...).then(...)
AwaitAll ==
    /\ runPc = "map" /\ mapStep = "decompress" /\ mapIndex = Len(moduleKeys)
    /\ runPc' = "awaiting"
    /\ UNCHANGED <<run, failure, promise, moduleKeys, mapIndex, mapStep, decompressed,
                   outputs, descriptor, namesVars, mainVars, extractVars,
                   decompressVars>>

\* lines 87-88: a directory is there; the write of the module file starts
MkdirpDone ==
    /\ Yielded
    /\ \E m \in DOMAIN outputs :
           /\ outputs[m] = "mkdirp"
           /\ outputs' = [outputs EXCEPT ![m] = "writing"]
    /\ UNCHANGED <<run, runPc, failure, promise, moduleKeys, mapIndex, mapStep,
                   decompressed, descriptor, namesVars, mainVars, extractVars,
                   decompressVars>>

\* line 88: a module file is written
WriteDone ==
    /\ Yielded
    /\ \E m \in DOMAIN outputs :
           /\ outputs[m] = "writing"
           /\ outputs' = [outputs EXCEPT ![m] = "written"]
    /\ UNCHANGED <<run, runPc, failure, promise, moduleKeys, mapIndex, mapStep,
                   decompressed, descriptor, namesVars, mainVars, extractVars,
                   decompressVars>>

\* lines 87-88, 369: a directory creation or a file write fails; Promise.all
\* rejects on the first failure, and with it the promise of the call
OutputFails ==
    /\ Yielded
    /\ \E m \in DOMAIN outputs :
           /\ outputs[m] \in {"mkdirp", "writing"}
           /\ outputs' = [outputs EXCEPT ![m] = "failed"]
    /\ promise' = IF runPc = "awaiting" THEN "rejected" ELSE promise
    /\ failure' = IF runPc = "awaiting" THEN "output" ELSE failure
    /\ runPc' = "done"
    /\ UNCHANGED <<run, moduleKeys, mapIndex, mapStep, decompressed, descriptor,
                   namesVars, mainVars, extractVars, decompressVars>>

\* lines 381-397, 317-324: every module file is written; the callback of
\* then calls writePackageJson, which starts the write (no dependency) or
\* the version lookups, and returns nothing: the promise of the call is
\* fulfilled
WritePackageJson ==
    /\ runPc = "awaiting"
    /\ \A m \in DOMAIN outputs : outputs[m] = "written"
    /\ descriptor' = IF dependencies = {}
                     THEN [state |-> "writing", dependencies |-> {}, lookup |-> "none"]
                     ELSE [state |-> "lookup", dependencies |-> dependencies,
                           lookup |-> "none"]
    /\ promise' = "resolved"
    /\ runPc' = "done"
    /\ UNCHANGED <<run, failure, moduleKeys, mapIndex, mapStep, decompressed, outputs,
                   namesVars, mainVars, extractVars, decompressVars>>

\* lines 324-332: every latestVersion answers; the write of package.json starts
LookupDone ==
    /\ Yielded /\ descriptor.state = "lookup"
    /\ descriptor' = [descriptor EXCEPT !.state = "writing", !.lookup = "latest"]
    /\ UNCHANGED <<run, runPc, failure, promise, moduleKeys, mapIndex, mapStep,
                   decompressed, outputs, namesVars, mainVars, extractVars,
                   decompressVars>>

\* line 324: a latestVersion fails; nobody holds the promise of writePackageJson
LookupFails ==
    /\ Yielded /\ descriptor.state = "lookup"
    /\ descriptor' = [descriptor EXCEPT !.state = "failed", !.lookup = "failed"]
    /\ UNCHANGED <<run, runPc, failure, promise, moduleKeys, mapIndex, mapStep,
                   decompressed, outputs, namesVars, mainVars, extractVars,
                   decompressVars>>

\* lines 335-338: package.json is written
DescriptorWritten ==
    /\ Yielded /\ descriptor.state = "writing"
    /\ descriptor' = [descriptor EXCEPT !.state = "written"]
    /\ UNCHANGED <<run, runPc, failure, promise, moduleKeys, mapIndex, mapStep,
                   decompressed, outputs, namesVars, mainVars, extractVars,
                   decompressVars>>

\* lines 335-338: the write of package.json fails
DescriptorWriteFails ==
    /\ Yielded /\ descriptor.state = "writing"
    /\ descriptor' = [descriptor EXCEPT !.state = "failed"]
    /\ UNCHANGED <<run, runPc, failure, promise, moduleKeys, mapIndex, mapStep,
                   decompressed, outputs, namesVars, mainVars, extractVars,
                   decompressVars>>

NextRun ==
    \/ CallUnbrowserify \/ ReadFails \/ Parsed
    \/ VisitNode \/ VisitCall \/ ThrowMoreThanOne \/ ReturnMain
    \/ MatchFails \/ Matched
    \/ Seed \/ Defer \/ Enter \/ Visit \/ Return
    \/ Resolved
    \/ FilterBuiltinStep \/ FilterPublishedStep \/ MapStep \/ AssembleStep
    \/ ReturnModules
    \/ ExtractFails \/ Extracted
    \/ DecompressModule \/ DecompressThrows \/ OutputCode \/ AwaitAll
    \/ MkdirpDone \/ WriteDone \/ OutputFails
    \/ WritePackageJson \/ LookupDone \/ LookupFails
    \/ DescriptorWritten \/ DescriptorWriteFails

(***************************************************************************)
(* The specifications: one call of each function on every input within the *)
(* bounds.                                                                 *)
(***************************************************************************)
\* extractModuleNames is called on a module map and its entry ids
InitSpecNames ==
    \E keys \in KeyLists, mn \in MainLists :
        \E flat \in FlatProps(Len(keys), Specifiers) :
            /\ NamesAre(NamesStart(ModuleObject(keys, flat), mn))
            /\ MainAre(MainIdle)
            /\ ExtractAre(ExtractIdle)
            /\ DecompressAre(DecompressIdle) /\ RunAre(RunIdle)

SpecNames == InitSpecNames /\ [][NextNames]_vars

\* a synchronous loop: a statement that can run does run
FairSpecNames == SpecNames /\ WF_vars(NextNames)

\* findMainFunction is called on a program tree
InitSpecMain ==
    \E tree \in ProgramTrees :
        /\ NamesAre(NamesIdle) /\ MainAre(MainStart(tree)) /\ ExtractAre(ExtractIdle)
        /\ DecompressAre(DecompressIdle) /\ RunAre(RunIdle)

SpecMain == InitSpecMain /\ [][NextMain]_vars

\* extractModules is called on a module map and the Name Table that
\* extractModuleNames returned for it
InitSpecExtract ==
    \E n \in 1..MaxModules, req \in RequireMappings(ExtractSpecifiers), f \in ModuleFunctions :
        LET r == RunNames(NamesStart(ExtractObject(n, req, f), <<1>>), RunFuel)
        IN  /\ r.pc = "done" /\ NamesAre(r) /\ MainAre(MainIdle) /\ ExtractAre(ExtractStart)
            /\ DecompressAre(DecompressIdle) /\ RunAre(RunIdle)

SpecExtract == InitSpecExtract /\ [][NextExtract]_vars

\* decompress is called, MaxRuns times in a row, on a parsed program
InitSpecDecompress ==
    \E e \in SourceExpressions(MaxDepth) : \E s \in StatementsOn(e) :
        /\ NamesAre(NamesIdle) /\ MainAre(MainIdle) /\ ExtractAre(ExtractIdle)
        /\ DecompressAre(DecompressStart(AST_Toplevel(<<s>>))) /\ RunAre(RunIdle)

SpecDecompress == InitSpecDecompress /\ [][NextDecompress]_vars

\* unbrowserify is called, MaxInvocations times one after the other, in a
\* process that has extracted nothing yet
InitSpecRun ==
    /\ NamesAre(NamesIdle) /\ MainAre(MainIdle) /\ ExtractAre(ExtractIdle)
    /\ DecompressAre(DecompressIdle) /\ RunAre(RunIdle)

SpecRun == InitSpecRun /\ [][NextRun]_vars

(***************************************************************************)
(* Claims about extractModules.                                            *)
(***************************************************************************)
\* the entries of the module map neither filter removes
Retained ==
    FilterPublished(moduleNames, FilterBuiltins(moduleNames, moduleObject), <<>>, {}).kept

\* the entries of a require-map whose key has the basename of the specifier
MappedBy(requireMapping, specifier) ==
    { j \in 1..Len(requireMapping) : Basename(requireMapping[j].key) = Basename(specifier) }

\* C7: after extractModules, a call of the require parameter with exactly one
\* string argument whose specifier, extension stripped, is a key of the
\* module's require-map has './' + the name of the mapped target + '.js' as
\* its argument; every other call has its arguments unchanged.
C7_RequiresRewritten ==
    exPc = "returned" =>
        \A i \in 1..Len(moduleProperties) :
            LET before == RenameArguments(Retained[i].moduleFunction)
                after  == moduleProperties[i].moduleFunction
                req    == Retained[i].requireMapping
            IN  \A k \in 1..Len(before.body) :
                    IF /\ IsRequireCall(before, before.body[k])
                       /\ MappedBy(req, before.body[k].args[1].value) # {}
                    THEN \E j \in MappedBy(req, before.body[k].args[1].value) :
                             after.body[k].args[1].value = DotSlashJs(moduleNames[req[j].value])
                    ELSE after.body[k].args = before.body[k].args

\* the classes of a module-map entry, by its resolved name
UnderNodeModules(name) == Len(name) >= 2 /\ name[1] = "node_modules"

BuiltinEntry(name) == UnderNodeModules(name) /\ IsBuiltinModule(name[2])

\* the package of a name under node_modules: '@scope/pkg' or 'pkg'
PackageName(name) ==
    IF StartsWithAt(name[2]) /\ Len(name) >= 3 THEN <<name[2], name[3]>> ELSE <<name[2]>>

PublishedEntry(name) ==
    /\ UnderNodeModules(name) /\ ~BuiltinEntry(name)
    /\ PackageName(name) = ToLowerCase(PackageName(name))

\* C10: an entry named as a host builtin under node_modules is never
\* recorded as a dependency and is not in the output; an entry whose package
\* name is lowercase (with or without a scope) is not in the output and its
\* package name is in the dependency set; every other entry is in the
\* returned name-to-tree mapping.
C10_Classification ==
    \A i \in 1..Len(moduleObject) :
        LET name == moduleNames[moduleObject[i].key]
        IN  /\ BuiltinEntry(name) => PackageName(name) \notin dependencies
            /\ exPc = "returned" =>
                   IF BuiltinEntry(name)
                   THEN name \notin DOMAIN modules
                   ELSE IF PublishedEntry(name)
                   THEN name \notin DOMAIN modules /\ PackageName(name) \in dependencies
                   ELSE name \in DOMAIN modules

\* a returned mapping of a bundle with a builtin, a scoped published package
\* and the retained entry module
C10_Witness ==
    /\ exPc = "returned"
    /\ \E i \in 1..Len(moduleObject) : BuiltinEntry(moduleNames[moduleObject[i].key])
    /\ \E i \in 1..Len(moduleObject) :
           /\ PublishedEntry(moduleNames[moduleObject[i].key])
           /\ Len(PackageName(moduleNames[moduleObject[i].key])) = 2
    /\ <<"browser">> \in DOMAIN modules

(***************************************************************************)
(* Claims about decompress.                                                *)
(***************************************************************************)
\* C11: decompress is idempotent: a call of decompress on a tree that
\* decompress already normalized leaves its printed form as it was.
C11_Idempotent ==
    [][runs >= 1 => formatCode(moduleTree') = formatCode(moduleTree)]_decompressVars

\* the statement holds a comma-expression in a structural slot
SequenceInSlot(statement) ==
    \/ statement.type = "Return" /\ statement.value.type = "Sequence"
    \/ statement.type = "SimpleStatement" /\ statement.body.type = "Sequence"
    \/ statement.type = "If" /\ statement.condition.type = "Sequence"
    \/ statement.type = "For" /\ statement.init.type = "Sequence"
    \/ statement.type \in {"With", "Switch"} /\ statement.expression.type = "Sequence"
    \/ /\ statement.type = "Var"
       /\ \E k \in 1..Len(statement.definitions) :
              statement.definitions[k].value.type = "Sequence"

\* no statement of the tree, the tree included, holds a comma-expression
\* in a structural slot: the elements of the block bodies and the bodies
\* and else branches of the statements with a body are looked at
RECURSIVE SlotsSplit(_)
SlotsSplit(node) ==
    /\ ~SequenceInSlot(node)
    /\ CASE node.type \in {"Toplevel", "BlockStatement"} ->
               \A k \in 1..Len(node.body) : SlotsSplit(node.body[k])
         [] node.type = "If" ->
               /\ SlotsSplit(node.body)
               /\ node.alternative # Null => SlotsSplit(node.alternative)
         [] node.type \in {"For", "With"} -> SlotsSplit(node.body)
         [] OTHER -> TRUE

\* C12: after one run of decompress no statement of the tree holds a
\* comma-expression in a structural slot, the statements the conditional
\* rewrites produced included.
C12_NoSequenceInSlot == runs >= 1 => SlotsSplit(moduleTree)

\* no return statement of the tree has a ternary conditional as its value
RECURSIVE NoReturnOfConditional(_)
NoReturnOfConditional(node) ==
    CASE node.type = "Return" -> node.value.type # "Conditional"
      [] node.type \in {"Toplevel", "BlockStatement"} ->
            \A k \in 1..Len(node.body) : NoReturnOfConditional(node.body[k])
      [] node.type = "If" ->
            /\ NoReturnOfConditional(node.body)
            /\ node.alternative # Null => NoReturnOfConditional(node.alternative)
      [] node.type \in {"For", "With"} -> NoReturnOfConditional(node.body)
      [] OTHER -> TRUE

\* operands no rule rewrites
PlainOperands == Leaves \cup {AST_SymbolRef("b"), AST_SymbolRef("c")}

\* the program is 'return c ? x : y;' with plain operands
ReturnsPlainTernary(p) ==
    /\ Len(p.body) = 1
    /\ p.body[1].type = "Return"
    /\ p.body[1].value.type = "Conditional"
    /\ p.body[1].value.condition \in PlainOperands
    /\ p.body[1].value.consequent \in PlainOperands
    /\ p.body[1].value.alternative \in PlainOperands

\* the return statement of a branch, bare when the branch is 'undefined'
BareReturn(value) ==
    IF value = AST_SymbolRef("undefined") THEN AST_Return(Null) ELSE AST_Return(value)

RECURSIVE EvaluationOrder(_)
RECURSIVE OrderOfList(_)
OrderOfList(s) ==
    IF s = <<>> THEN <<>> ELSE EvaluationOrder(Head(s)) \o OrderOfList(Tail(s))

EvaluationOrder(node) ==
    CASE node.type = "SymbolRef" -> <<node>>
      [] node.type = "Call" -> EvaluationOrder(node.expression) \o <<node>>
      [] node.type \in {"Dot", "UnaryPrefix"} -> EvaluationOrder(node.expression)
      [] node.type = "Sequence" -> OrderOfList(<<node.car, node.cdr>>)
      [] node.type = "Binary" -> OrderOfList(<<node.left, node.right>>)
      [] node.type = "Conditional" ->
            OrderOfList(<<node.condition, node.consequent, node.alternative>>)
      [] node.type = "Assign" ->
            IF node.left.type = "SymbolRef" THEN EvaluationOrder(node.right)
            ELSE OrderOfList(<<node.left, node.right>>)
      [] node.type = "SimpleStatement" -> EvaluationOrder(node.body)
      [] node.type \in {"Return", "VarDef"} -> EvaluationOrder(node.value)
      [] node.type = "If" -> OrderOfList(<<node.condition, node.body, node.alternative>>)
      [] node.type = "Var" -> OrderOfList(node.definitions)
      [] node.type \in {"BlockStatement", "Toplevel"} -> OrderOfList(node.body)
      [] node.type = "For" -> OrderOfList(<<node.init, node.body>>)
      [] node.type = "With" -> OrderOfList(<<node.expression, node.body>>)
      [] node.type = "Switch" -> EvaluationOrder(node.expression) \o OrderOfList(node.body)
      [] OTHER -> <<>>

\* C18: sequence splitting preserves the order of evaluation: after a run
\* the statement list evaluates the references and calls of the original
\* statement in the original order, so that what was evaluated before a
\* hoisted left operand (an earlier declarator's initializer, the
\* sub-expressions of an assignment target) is still evaluated before it.
C18_EvaluationOrderKept ==
    runs = 1 => EvaluationOrder(moduleTree) = EvaluationOrder(program)

(***************************************************************************)
(* Claims about unbrowserify.                                              *)
(***************************************************************************)
\* the names of the modules of this call
ModuleKeys == { moduleKeys[k] : k \in 1..Len(moduleKeys) }

\* outputCode has been called for the module m
Dispatched(m) == outputs[m] # "none"

\* C14: no module's output (the creation of its directory, then the write
\* of its file) is dispatched before decompress has returned for every
\* extracted module: every call of decompress precedes the first call of
\* outputCode.
C14_NormalizeBeforeOutput ==
    (\E m \in DOMAIN outputs : Dispatched(m)) => ModuleKeys \subseteq decompressed

\* C15: a call in which kernel matching, name resolution, assembly or the
\* normalization of a module raised a fatal error has its promise rejected
\* and writes no module file and no package.json.
C15_AllOrNothing ==
    failure \in {"kernel", "assembly", "normalization"} =>
        /\ promise = "rejected"
        /\ \A m \in DOMAIN outputs : outputs[m] # "written"
        /\ descriptor.state # "written"

\* C16: a failure of the descriptor stage reaches the caller: when a
\* latest-version lookup or the write of package.json fails, the promise of
\* the call is rejected; the promise is not fulfilled before package.json
\* is written; and package.json is written with looked-up versions only.
C16_DescriptorFailuresPropagate ==
    /\ descriptor.state = "failed" => promise = "rejected"
    /\ promise = "resolved" => descriptor.state = "written"
    /\ (descriptor.state = "written" /\ descriptor.dependencies # {}) =>
           descriptor.lookup = "latest"

\* the published packages detected in the bundle of this call alone
DetectedInThisBundle ==
    FilterPublished(moduleNames, FilterBuiltins(moduleNames, moduleObject), <<>>, {}).deps

\* C17: calls are stateless: the dependencies a call declares in
\* package.json are exactly the published packages detected in the bundle
\* of that call; no name detected by an earlier call carries over.
C17_Stateless ==
    descriptor.state # "none" => descriptor.dependencies = DetectedInThisBundle

=============================================================================
